---- MODULE Spec2Model ----
(***************************************************************************)
(* A model of bot.py: the LBank futures scanner.  The module start-up     *)
(* (environment, Bot construction), main_loop with its scan cycle         *)
(* (fetch_futures_data, analyze_symbol per ticker entry, alert dispatch   *)
(* through send_telegram_message, time.sleep) and the indicator           *)
(* arithmetic of analyze_symbol / calculate_rsi.                          *)
(*                                                                         *)
(* Floating point values are modelled as exact rationals extended with    *)
(* NaN and +/-infinity, which is what the pandas/numpy operations used by  *)
(* the code produce on division by zero and on missing samples.           *)
(***************************************************************************)
EXTENDS Integers, Sequences, FiniteSets, TLC

(***************************************************************************)
(* Program constants                                                       *)
(***************************************************************************)
Period == 14            \* calculate_rsi(df['close'], 14), rolling(window=14)
SleepSeconds == 60      \* time.sleep(60)
MinReturnPct == 80      \* df['return_1h'].iloc[-1] >= 80
MinRSI == 85            \* df['rsi'].iloc[-1] > 85
MinVolumeSpike == 3     \* volume_spike >= 3

(***************************************************************************)
(* Bounds of the model                                                     *)
(***************************************************************************)
MaxKlines == 17         \* longest candle list the exchange answers with
MaxSymbols == 3         \* longest ticker snapshot

(***************************************************************************)
(* Floats: [k |-> "fin", n, d] is n/d with d > 0; "nan"; "inf" with sign n *)
(***************************************************************************)
Rat(n, d) == [k |-> "fin", n |-> n, d |-> d]
NaN == [k |-> "nan", n |-> 0, d |-> 1]
Inf(sign) == [k |-> "inf", n |-> sign, d |-> 1]

Sign(n) == IF n > 0 THEN 1 ELSE IF n < 0 THEN -1 ELSE 0

\* x / y as numpy divides floats: x/0 is +-inf, 0/0 is nan, nan propagates
FDiv(x, y) ==
    IF x.k = "nan" \/ y.k = "nan" THEN NaN
    ELSE IF x.k = "inf" /\ y.k = "inf" THEN NaN
    ELSE IF x.k = "inf" THEN Inf(x.n * (IF y.n < 0 THEN -1 ELSE 1))
    ELSE IF y.k = "inf" THEN Rat(0, 1)
    ELSE IF y.n = 0 THEN (IF x.n = 0 THEN NaN ELSE Inf(Sign(x.n)))
    ELSE IF y.n > 0 THEN Rat(x.n * y.d, x.d * y.n)
    ELSE Rat(-(x.n * y.d), x.d * (-(y.n)))

FAdd(x, y) ==
    IF x.k = "nan" \/ y.k = "nan" THEN NaN
    ELSE IF x.k = "inf" /\ y.k = "inf" THEN (IF x.n = y.n THEN x ELSE NaN)
    ELSE IF x.k = "inf" THEN x
    ELSE IF y.k = "inf" THEN y
    ELSE Rat(x.n * y.d + y.n * x.d, x.d * y.d)

FNeg(x) == IF x.k = "nan" THEN NaN ELSE [x EXCEPT !.n = -(x.n)]
FSub(x, y) == FAdd(x, FNeg(y))

FMul(x, y) ==
    IF x.k = "nan" \/ y.k = "nan" THEN NaN
    ELSE IF x.k = "inf" \/ y.k = "inf"
         THEN (IF x.n = 0 \/ y.n = 0 THEN NaN ELSE Inf(Sign(x.n) * Sign(y.n)))
    ELSE Rat(x.n * y.n, x.d * y.d)

\* comparisons; every comparison with nan is False
FGe(x, y) ==
    /\ x.k # "nan" /\ y.k # "nan"
    /\ IF x.k = "inf" THEN x.n > 0 \/ (y.k = "inf" /\ y.n < 0)
       ELSE IF y.k = "inf" THEN y.n < 0
       ELSE x.n * y.d >= y.n * x.d
FGt(x, y) ==
    /\ x.k # "nan" /\ y.k # "nan"
    /\ IF x.k = "inf" THEN x.n > 0 /\ ~(y.k = "inf" /\ y.n > 0)
       ELSE IF y.k = "inf" THEN y.n < 0
       ELSE x.n * y.d > y.n * x.d

\* round(x, 2) of a finite value, as an integer number of hundredths
\* (ties to even, as Python rounds)
Round2(x) ==
    LET q == (100 * x.n) \div x.d
        r == (100 * x.n) % x.d
    IN  IF 2 * r > x.d THEN q + 1
        ELSE IF 2 * r < x.d THEN q
        ELSE IF q % 2 = 0 THEN q ELSE q + 1

RECURSIVE SumRange(_, _, _)
SumRange(s, lo, hi) == IF lo > hi THEN 0 ELSE s[hi] + SumRange(s, lo, hi - 1)

(***************************************************************************)
(* pandas Series operations used by the code, on integer-valued columns.   *)
(* A Series is a sequence; positions are 1-based here.                     *)
(***************************************************************************)
\* series.diff(): nan at the first position
Diff(series) ==
    [i \in 1..Len(series) |-> IF i = 1 THEN NaN ELSE Rat(series[i] - series[i-1], 1)]

\* series.pct_change(): nan at the first position, else series[i]/series[i-1] - 1
PctChange(series) ==
    [i \in 1..Len(series) |->
        IF i = 1 THEN NaN
        ELSE FSub(FDiv(Rat(series[i], 1), Rat(series[i-1], 1)), Rat(1, 1))]

\* series.rolling(window).mean() of a series without nan: nan until the
\* window is full, then the mean of the trailing window samples
RollingMean(series, window) ==
    [i \in 1..Len(series) |->
        IF i < window THEN NaN
        ELSE Rat(SumRange(series, i - window + 1, i), window)]

(***************************************************************************)
(* calculate_rsi(series, period)                                           *)
(***************************************************************************)
\* gain = delta.where(delta > 0, 0).fillna(0)
Gain(series) ==
    LET delta == Diff(series)
    IN  [i \in 1..Len(series) |->
            IF FGt(delta[i], Rat(0, 1)) THEN delta[i].n ELSE 0]

\* mutant: the falls are kept with their sign (no negation)
Loss_NotNegated(series) ==
    LET delta == Diff(series)
    IN  [i \in 1..Len(series) |->
            IF FGt(Rat(0, 1), delta[i]) THEN delta[i].n ELSE 0]

\* loss = (-delta.where(delta < 0, 0)).fillna(0)
Loss(series) ==
    LET delta == Diff(series)
    IN  [i \in 1..Len(series) |->
            IF FGt(Rat(0, 1), delta[i]) THEN -(delta[i].n) ELSE 0]

\* mutant: a division by a zero average loss yields NaN, which propagates
calculate_rsi_NaNOnZeroLoss(series, period) ==
    LET avg_gain == RollingMean(Gain(series), period)
        avg_loss == RollingMean(Loss(series), period)
    IN  [i \in 1..Len(series) |->
            LET rs == IF avg_loss[i].k = "fin" /\ avg_loss[i].n = 0
                      THEN NaN ELSE FDiv(avg_gain[i], avg_loss[i])
            IN  FSub(Rat(100, 1), FDiv(Rat(100, 1), FAdd(Rat(1, 1), rs)))]

calculate_rsi(series, period) ==
    LET avg_gain == RollingMean(Gain(series), period)
        avg_loss == RollingMean(Loss(series), period)
    IN  [i \in 1..Len(series) |->
            LET rs == FDiv(avg_gain[i], avg_loss[i])
            IN  FSub(Rat(100, 1), FDiv(Rat(100, 1), FAdd(Rat(1, 1), rs)))]

(***************************************************************************)
(* Inputs: ticker entries, candle responses                                *)
(***************************************************************************)
Symbols == {"A", "B", "C"}

\* A ticker entry of the snapshot.  numeric: every one of 'last', 'vol',
\* 'change', 'high', 'low', 'open' is present and float() accepts it.
TickerLast(sym) == CASE sym = "A" -> 1 [] sym = "B" -> 2 [] OTHER -> 3
Entry(sym, numeric) == [symbol |-> sym, numeric |-> numeric, last |-> TickerLast(sym)]
Entries == {Entry(sym, numeric) : sym \in Symbols, numeric \in BOOLEAN}

\* A candle list of n rows [close, volume] (the other columns are not read
\* after conversion).  Closes are 10 except: the last close; a rise of dip
\* and fall back just before the last candle; with early, a first close of
\* 50.  Volumes are baseVol except the last one; with early, a first
\* volume of 1000.
MkKlines(n, dip, lastClose, baseVol, lastVol, early) ==
    [i \in 1..n |->
        [close  |-> IF i = n THEN lastClose
                    ELSE IF i = 1 /\ early THEN 50
                    ELSE IF i = n - 2 THEN 10 + dip ELSE 10,
         volume |-> IF i = n THEN lastVol
                    ELSE IF i = 1 /\ early THEN 1000 ELSE baseVol]]

KlineInputs ==
    {MkKlines(n, dip, lastClose, baseVol, lastVol, early) :
        n \in 0..MaxKlines, dip \in {0, 1, 3}, lastClose \in {10, 17, 18, 24, 25},
        baseVol \in {0, 10}, lastVol \in {29, 30, 40}, early \in BOOLEAN}

\* the responses to the future_kline request: the request fails (network
\* error, timeout, HTTP error, no 'data' in the body), the body's rows do not
\* convert to the six float columns, or a list of candles
KlineFail == [kind |-> "fail", klines |-> <<>>]
KlineBadRows == [kind |-> "badrows", klines |-> <<>>]
KlineOk(klines) == [kind |-> "ok", klines |-> klines]

Column(klines, name) == [i \in 1..Len(klines) |-> klines[i][name]]

\* series.iloc[k] for k < 0: IndexError unless the series has -k entries
ILocInBounds(series, k) == Len(series) >= -k
ILoc(series, k) == series[Len(series) + k + 1]

(***************************************************************************)
(* analyze_symbol(symbol_data)                                             *)
(***************************************************************************)
NoResult == [symbol |-> "", last_price |-> 0, return_1h |-> 0, rsi |-> 0, volume_spike |-> 0]
Raised == [outcome |-> "raise", result |-> NoResult]
ReturnNone == [outcome |-> "none", result |-> NoResult]

\* mutant: the mean is read at the latest candle (.iloc[-1])
AvgVolume_InclLatest(volume) == ILoc(RollingMean(volume, Period), -1)

\* avg_volume = df['volume'].rolling(window=14).mean().iloc[-2]
AvgVolume(volume) == ILoc(RollingMean(volume, Period), -2)

\* mutant: the division is not guarded by avg_volume > 0
VolumeSpike_NoGuard(volume) ==
    LET avg_volume == AvgVolume(volume)
        current_vol == Rat(ILoc(volume, -1), 1)
    IN  FDiv(current_vol, avg_volume)

\* volume_spike = current_vol / avg_volume if avg_volume > 0 else 0
VolumeSpike(volume) ==
    LET avg_volume == AvgVolume(volume)
        current_vol == Rat(ILoc(volume, -1), 1)
    IN  IF FGt(avg_volume, Rat(0, 1)) THEN FDiv(current_vol, avg_volume) ELSE Rat(0, 1)

\* df['return_1h'] = df['close'].pct_change() * 100
Return1h(close) ==
    LET pct == PctChange(close)
    IN  [i \in 1..Len(close) |-> FMul(pct[i], Rat(100, 1))]

\* mutant: RSI compared with >= instead of >
AlertRule_RsiGe(return_1h, rsi, volume_spike) ==
    /\ FGe(return_1h, Rat(MinReturnPct, 1))
    /\ FGe(rsi, Rat(MinRSI, 1))
    /\ FGe(volume_spike, Rat(MinVolumeSpike, 1))

\* mutant: the RSI comparison is reversed (rsi < 85)
AlertRule_RsiBelow(return_1h, rsi, volume_spike) ==
    /\ FGe(return_1h, Rat(MinReturnPct, 1))
    /\ FGt(Rat(MinRSI, 1), rsi)
    /\ FGe(volume_spike, Rat(MinVolumeSpike, 1))

\* the condition of the if statement
AlertRule(return_1h, rsi, volume_spike) ==
    /\ FGe(return_1h, Rat(MinReturnPct, 1))
    /\ FGt(rsi, Rat(MinRSI, 1))
    /\ FGe(volume_spike, Rat(MinVolumeSpike, 1))

\* the body after the candle request succeeded
AnalyzeKlines(symbol_data, klines) ==
    LET close  == Column(klines, "close")
        volume == Column(klines, "volume")
    IN  IF ~ILocInBounds(volume, -2) THEN Raised
        ELSE LET return_1h == ILoc(Return1h(close), -1)
                 rsi == ILoc(calculate_rsi(close, Period), -1)
                 volume_spike == VolumeSpike(volume)
             IN  IF AlertRule(return_1h, rsi, volume_spike)
                 THEN [outcome |-> "alert",
                       result  |-> [symbol       |-> symbol_data.symbol,
                                    last_price   |-> symbol_data.last,
                                    return_1h    |-> Round2(return_1h),
                                    rsi          |-> Round2(rsi),
                                    volume_spike |-> Round2(volume_spike)]]
                 ELSE ReturnNone

analyze_symbol(symbol_data, resp) ==
    IF ~symbol_data.numeric THEN Raised
    ELSE IF resp.kind = "fail" THEN ReturnNone
    ELSE IF resp.kind = "badrows" THEN Raised
    ELSE AnalyzeKlines(symbol_data, resp.klines)

(***************************************************************************)
(* Collaborators as seen by the program                                    *)
(***************************************************************************)
\* Bot(token=TELEGRAM_BOT_TOKEN) at import time: the library rejects a
\* missing token with an exception, which ends the process before main_loop
Bot(token) == [raised |-> ~token]

\* the candle responses the scan cycles draw from: flat lists and lists
\* whose last close rises (to 25 in the longest list, to 18 in the others)
CycleKlines ==
    {MkKlines(n, 0, IF rise THEN (IF n = MaxKlines THEN 25 ELSE 18) ELSE 10, 10, 40, FALSE) :
        n \in {0, Period + 1, MaxKlines}, rise \in BOOLEAN}
KlineResponses == {KlineFail, KlineBadRows} \cup {KlineOk(k) : k \in CycleKlines}

\* ticker snapshots: at most MaxSymbols entries, one per symbol
Snapshots ==
    {s \in UNION {[1..k -> Entries] : k \in 0..MaxSymbols} :
        \A i, j \in DOMAIN s : i # j => s[i].symbol # s[j].symbol}

\* the responses to the future_ticker_all request: the request fails (or the
\* body has no 'data'), 'data' is not a list (null), or a list of entries
SnapshotFail == [kind |-> "fail", data |-> <<>>]
SnapshotNotList == [kind |-> "notlist", data |-> <<>>]
SnapshotOk(data) == [kind |-> "ok", data |-> data]
SnapshotResponses == {SnapshotFail, SnapshotNotList} \cup {SnapshotOk(d) : d \in Snapshots}

\* mutant: no try/except around the request
fetch_futures_data_uncaught(resp) ==
    [raised |-> resp.kind = "fail", iterable |-> resp.kind = "ok", data |-> resp.data]

\* fetch_futures_data(): every exception is caught and turned into []
fetch_futures_data(resp) ==
    IF resp.kind = "fail"
    THEN [raised |-> FALSE, iterable |-> TRUE, data |-> <<>>]
    ELSE [raised |-> FALSE, iterable |-> resp.kind = "ok", data |-> resp.data]

\* mutant: no try/except around bot.send_message
send_telegram_message_uncaught(message, ok) == [raised |-> ~ok, delivered |-> ok]

\* send_telegram_message(message): every exception of bot.send_message is
\* caught; ok is whether Telegram accepted the message
send_telegram_message(message, ok) == [raised |-> FALSE, delivered |-> ok]

\* mutant: the f-string renders the RSI where the return belongs and the
\* return where the RSI belongs
Msg_SwappedFields(result) ==
    [symbol |-> result.symbol, return_1h |-> result.rsi,
     rsi |-> result.return_1h, volume_spike |-> result.volume_spike]

\* msg of main_loop: the fields of result the f-string renders
Msg(result) ==
    [symbol |-> result.symbol, return_1h |-> result.return_1h,
     rsi |-> result.rsi, volume_spike |-> result.volume_spike]

(***************************************************************************)
(* State                                                                   *)
(***************************************************************************)
VARIABLES
    env,            \* which of TELEGRAM_BOT_TOKEN / TELEGRAM_CHAT_ID are set
    pc,             \* "start", "exited", or the next blocking call of main_loop:
                    \* "fetch", "analyze", "dispatch", "sleep", "sleepErr"
    futures_data,   \* the snapshot of the current cycle
    idx,            \* position of the for loop over futures_data
    alerts,         \* the alerts list of the current cycle
    sendIdx,        \* position of the for loop over alerts
    calls,          \* the analyze_symbol calls of the current cycle, until its wait is over
    sent,           \* the send_telegram_message calls of the current cycle, likewise
    snapshotFailed, \* the snapshot request of the current cycle failed
    cycleRaised,    \* the current cycle ended in main_loop's except clause
    started,        \* a scan cycle has been started
    waited,         \* seconds slept since the last cycle ended
    prevSent,       \* HistorySpec: the symbols alerted in the cycle before this one
    arg,            \* the pure-function specifications: the arguments of one call
    ret             \* the pure-function specifications: what that call returned

vars == <<env, pc, futures_data, idx, alerts, sendIdx, calls, sent,
          snapshotFailed, cycleRaised, started, waited, prevSent, arg, ret>>

NoArg == [symbol_data |-> Entry("A", TRUE), resp |-> KlineFail]
Pending == [outcome |-> "pending", result |-> NoResult]

Init ==
    /\ env \in [token : BOOLEAN, chat : BOOLEAN]
    /\ pc = "start"
    /\ futures_data = <<>>
    /\ idx = 1
    /\ alerts = <<>>
    /\ sendIdx = 1
    /\ calls = <<>>
    /\ sent = <<>>
    /\ snapshotFailed = FALSE
    /\ cycleRaised = FALSE
    /\ started = FALSE
    /\ waited = 0
    /\ prevSent = {}
    /\ arg = NoArg
    /\ ret = Pending

(***************************************************************************)
(* Module import and main_loop                                             *)
(***************************************************************************)
\* lines 11-18 and 128-129: read the environment, construct the Bot, enter
\* main_loop
Startup ==
    /\ pc = "start"
    /\ pc' = IF Bot(env.token).raised THEN "exited" ELSE "fetch"
    /\ UNCHANGED <<env, prevSent, futures_data, idx, alerts, sendIdx, calls, sent,
                   snapshotFailed, cycleRaised, started, waited, arg, ret>>

\* mutant: the alerts are left to be sent later; the wait starts as soon as
\* the last symbol is analyzed
AfterAnalysis_SleepBeforeDispatch(i, data, collected) ==
    IF i <= Len(data) THEN "analyze" ELSE "sleep"

\* mutant: an alert is sent as soon as it is collected, inside the loop over
\* the symbols
AfterAnalysis_DispatchEarly(i, data, collected) ==
    IF collected # <<>> THEN "dispatch"
    ELSE IF i <= Len(data) THEN "analyze"
    ELSE "sleep"

\* where main_loop blocks next once the for loop stands at position i
AfterAnalysis(i, data, collected) ==
    IF i <= Len(data) THEN "analyze"
    ELSE IF collected # <<>> THEN "dispatch"
    ELSE "sleep"

\* futures_data = fetch_futures_data(); alerts = []
FetchFuturesData ==
    /\ pc = "fetch"
    /\ \E resp \in SnapshotResponses :
        LET r == fetch_futures_data(resp)
        IN  /\ futures_data' = r.data
            /\ snapshotFailed' = (resp.kind = "fail")
            /\ cycleRaised' = (r.raised \/ ~r.iterable)
            /\ pc' = IF r.raised \/ ~r.iterable THEN "sleepErr"
                     ELSE AfterAnalysis(1, r.data, <<>>)
    /\ idx' = 1
    /\ alerts' = <<>>
    /\ sendIdx' = 1
    /\ calls' = <<>>
    /\ sent' = <<>>
    /\ started' = TRUE
    /\ waited' = 0
    /\ UNCHANGED <<env, prevSent, arg, ret>>

\* one iteration of "for symbol_data in futures_data"
AnalyzeSymbol ==
    /\ pc = "analyze"
    /\ LET symbol_data == futures_data[idx]
       IN  \E resp \in (IF symbol_data.numeric THEN KlineResponses ELSE {KlineFail}) :
            LET r == analyze_symbol(symbol_data, resp)
                collected == IF r.outcome = "alert"
                             THEN Append(alerts, Msg(r.result)) ELSE alerts
            IN  /\ calls' = Append(calls, [symbol    |-> symbol_data.symbol,
                                           requested |-> symbol_data.numeric,
                                           resp      |-> resp,
                                           outcome   |-> r.outcome])
                /\ IF r.outcome = "raise"
                   THEN /\ pc' = "sleepErr"
                        /\ cycleRaised' = TRUE
                        /\ UNCHANGED <<idx, alerts>>
                   ELSE /\ alerts' = collected
                        /\ idx' = idx + 1
                        /\ pc' = AfterAnalysis(idx + 1, futures_data, collected)
                        /\ UNCHANGED cycleRaised
    /\ UNCHANGED <<env, prevSent, futures_data, sendIdx, sent, snapshotFailed, started,
                   waited, arg, ret>>

\* one iteration of "for alert in alerts"; without a chat id no send succeeds
SendAlert ==
    /\ pc = "dispatch"
    /\ \E ok \in BOOLEAN :
        /\ ok => env.chat
        /\ LET r == send_telegram_message(alerts[sendIdx], ok)
           IN  /\ sent' = Append(sent, [msg |-> alerts[sendIdx], delivered |-> r.delivered])
               /\ IF r.raised
                  THEN /\ pc' = "sleepErr"
                       /\ cycleRaised' = TRUE
                       /\ UNCHANGED sendIdx
                  ELSE /\ sendIdx' = sendIdx + 1
                       /\ pc' = IF sendIdx + 1 <= Len(alerts) THEN "dispatch" ELSE "sleep"
                       /\ UNCHANGED cycleRaised
    /\ UNCHANGED <<env, prevSent, futures_data, idx, alerts, calls, snapshotFailed,
                   started, waited, arg, ret>>

\* time.sleep(60) at the end of the try block
Sleep ==
    /\ pc = "sleep"
    /\ waited' = waited + SleepSeconds
    /\ pc' = "fetch"
    /\ calls' = <<>>
    /\ sent' = <<>>
    /\ UNCHANGED <<env, prevSent, futures_data, idx, alerts, sendIdx,
                   snapshotFailed, cycleRaised, started, arg, ret>>

\* mutant: the exception is not caught and leaves main_loop
SleepAfterError_Reraise ==
    /\ pc = "sleepErr"
    /\ pc' = "exited"
    /\ UNCHANGED <<env, prevSent, futures_data, idx, alerts, sendIdx, calls, sent,
                   snapshotFailed, cycleRaised, started, waited, arg, ret>>

\* mutant: the except clause goes back to the loop head without sleeping
SleepAfterError_NoWait ==
    /\ pc = "sleepErr"
    /\ pc' = "fetch"
    /\ calls' = <<>>
    /\ sent' = <<>>
    /\ UNCHANGED <<env, prevSent, futures_data, idx, alerts, sendIdx,
                   snapshotFailed, cycleRaised, started, waited, arg, ret>>

\* except Exception: print; time.sleep(60)
SleepAfterError ==
    /\ pc = "sleepErr"
    /\ waited' = waited + SleepSeconds
    /\ pc' = "fetch"
    /\ calls' = <<>>
    /\ sent' = <<>>
    /\ UNCHANGED <<env, prevSent, futures_data, idx, alerts, sendIdx,
                   snapshotFailed, cycleRaised, started, arg, ret>>

Next ==
    \/ Startup
    \/ FetchFuturesData
    \/ AnalyzeSymbol
    \/ SendAlert
    \/ Sleep
    \/ SleepAfterError

Spec == Init /\ [][Next]_vars

\* main_loop runs on one thread and each of its calls returns (the requests
\* carry timeout=10, the sleep is 60 s), so the enabled step is always taken
LiveSpec == Spec /\ WF_vars(Next)

(***************************************************************************)
(* main_loop with a record of the cycle before: the same steps, and the    *)
(* two sleeps note which symbols the cycle that ends has alerted           *)
(***************************************************************************)
SentSymbols == {sent[j].msg.symbol : j \in DOMAIN sent}

HistoryInit == Init /\ env.token /\ env.chat

HistorySleep ==
    /\ pc = "sleep"
    /\ waited' = waited + SleepSeconds
    /\ pc' = "fetch"
    /\ prevSent' = SentSymbols
    /\ calls' = <<>>
    /\ sent' = <<>>
    /\ UNCHANGED <<env, futures_data, idx, alerts, sendIdx,
                   snapshotFailed, cycleRaised, started, arg, ret>>

HistorySleepAfterError ==
    /\ pc = "sleepErr"
    /\ waited' = waited + SleepSeconds
    /\ pc' = "fetch"
    /\ prevSent' = SentSymbols
    /\ calls' = <<>>
    /\ sent' = <<>>
    /\ UNCHANGED <<env, futures_data, idx, alerts, sendIdx,
                   snapshotFailed, cycleRaised, started, arg, ret>>

HistoryNext ==
    \/ Startup
    \/ FetchFuturesData
    \/ AnalyzeSymbol
    \/ SendAlert
    \/ HistorySleep
    \/ HistorySleepAfterError

HistorySpec == HistoryInit /\ [][HistoryNext]_vars

(***************************************************************************)
(* analyze_symbol as a pure function of its inputs                         *)
(***************************************************************************)
AnalyzeInit ==
    /\ env = [token |-> TRUE, chat |-> TRUE]
    /\ pc = "call"
    /\ futures_data = <<>>
    /\ idx = 1
    /\ alerts = <<>>
    /\ sendIdx = 1
    /\ calls = <<>>
    /\ sent = <<>>
    /\ snapshotFailed = FALSE
    /\ cycleRaised = FALSE
    /\ started = FALSE
    /\ waited = 0
    /\ prevSent = {}
    /\ arg \in [symbol_data : {Entry("A", TRUE), Entry("B", FALSE)},
                resp : {KlineFail, KlineBadRows} \cup {KlineOk(k) : k \in KlineInputs}]
    /\ ret = Pending

CallAnalyze ==
    /\ pc = "call"
    /\ ret' = analyze_symbol(arg.symbol_data, arg.resp)
    /\ pc' = "returned"
    /\ UNCHANGED <<env, prevSent, futures_data, idx, alerts, sendIdx, calls, sent,
                   snapshotFailed, cycleRaised, started, waited, arg>>

AnalyzeNext == CallAnalyze

AnalyzeSpec == AnalyzeInit /\ [][AnalyzeNext]_vars

(***************************************************************************)
(* The indicators as pure functions of the candles: one candle list is     *)
(* drawn, then calculate_rsi or the volume spike lines are applied to it.  *)
(***************************************************************************)
IndicatorInit ==
    /\ env = [token |-> TRUE, chat |-> TRUE]
    /\ pc = "indicators"
    /\ futures_data = <<>>
    /\ idx = 1
    /\ alerts = <<>>
    /\ sendIdx = 1
    /\ calls = <<>>
    /\ sent = <<>>
    /\ snapshotFailed = FALSE
    /\ cycleRaised = FALSE
    /\ started = FALSE
    /\ waited = 0
    /\ prevSent = {}
    /\ arg \in [klines : KlineInputs]
    /\ ret = Pending

\* calculate_rsi(df['close'])
CallCalculateRsi ==
    /\ pc = "indicators"
    /\ ret' = calculate_rsi(Column(arg.klines, "close"), Period)
    /\ pc' = "rsi"
    /\ UNCHANGED <<env, prevSent, futures_data, idx, alerts, sendIdx, calls, sent,
                   snapshotFailed, cycleRaised, started, waited, arg>>

\* avg_volume, current_vol and volume_spike of analyze_symbol; .iloc[-2]
\* raises IndexError on fewer than two candles
ComputeVolumeSpike ==
    /\ pc = "indicators"
    /\ LET volume == Column(arg.klines, "volume")
       IN  ret' = IF ILocInBounds(volume, -2)
                  THEN [outcome |-> "value", value |-> VolumeSpike(volume)]
                  ELSE [outcome |-> "raise", value |-> NaN]
    /\ pc' = "spike"
    /\ UNCHANGED <<env, prevSent, futures_data, idx, alerts, sendIdx, calls, sent,
                   snapshotFailed, cycleRaised, started, waited, arg>>

IndicatorNext == CallCalculateRsi \/ ComputeVolumeSpike

IndicatorSpec == IndicatorInit /\ [][IndicatorNext]_vars

(***************************************************************************)
(* The alert rule as a pure function of the three indicators: a triple of  *)
(* values around the thresholds is drawn together with a larger value for  *)
(* one of the three, and the rule is evaluated on both triples.            *)
(***************************************************************************)
\* how many half units below and above a threshold the drawn values go
RuleGridSteps == 2

Around(threshold) ==
    {Rat(n, 2) : n \in (2 * threshold - RuleGridSteps)..(2 * threshold + RuleGridSteps)}

Indicators == {"return_1h", "rsi", "volume_spike"}
Threshold(name) ==
    CASE name = "return_1h" -> MinReturnPct
      [] name = "rsi" -> MinRSI
      [] OTHER -> MinVolumeSpike

RuleInit ==
    /\ env = [token |-> TRUE, chat |-> TRUE]
    /\ pc = "rule"
    /\ futures_data = <<>>
    /\ idx = 1
    /\ alerts = <<>>
    /\ sendIdx = 1
    /\ calls = <<>>
    /\ sent = <<>>
    /\ snapshotFailed = FALSE
    /\ cycleRaised = FALSE
    /\ started = FALSE
    /\ waited = 0
    /\ prevSent = {}
    /\ \E which \in Indicators :
        /\ arg \in [return_1h : Around(MinReturnPct), rsi : Around(MinRSI),
                    volume_spike : Around(MinVolumeSpike),
                    which : {which}, raised : Around(Threshold(which))]
        /\ FGt(arg.raised, arg[which])
    /\ ret = Pending

\* the if statement of analyze_symbol on the triple and on the triple with
\* one value raised
EvaluateRule ==
    /\ pc = "rule"
    /\ LET after == [arg EXCEPT ![arg.which] = arg.raised]
       IN  ret' = [before |-> AlertRule(arg.return_1h, arg.rsi, arg.volume_spike),
                   after  |-> AlertRule(after.return_1h, after.rsi, after.volume_spike)]
    /\ pc' = "ruled"
    /\ UNCHANGED <<env, prevSent, futures_data, idx, alerts, sendIdx, calls, sent,
                   snapshotFailed, cycleRaised, started, waited, arg>>

RuleNext == EvaluateRule

RuleSpec == RuleInit /\ [][RuleNext]_vars

(***************************************************************************)
(* Properties                                                              *)
(***************************************************************************)
\* the work of the cycle is over: main_loop is about to wait
CycleEnded == pc \in {"sleep", "sleepErr"}

\* The alert rule on a candle list of at least 15 candles, in integer
\* arithmetic: with c the closes, v the volumes, n the length, G and L the
\* sums of the rises and falls of the last 14 close-to-close changes and M the
\* sum of the 14 volumes before the last one,
\*   return >= 80  iff  100 * (c[n] - c[n-1]) >= 80 * c[n-1]
\*   RSI > 85      iff  G + L > 0 and 100 * G > 85 * (G + L)
\*   spike >= 3    iff  M > 0 and 14 * v[n] >= 3 * M
RECURSIVE SumRises(_, _, _)
SumRises(c, lo, hi) ==
    IF lo > hi THEN 0
    ELSE (IF c[hi] > c[hi-1] THEN c[hi] - c[hi-1] ELSE 0) + SumRises(c, lo, hi - 1)
RECURSIVE SumFalls(_, _, _)
SumFalls(c, lo, hi) ==
    IF lo > hi THEN 0
    ELSE (IF c[hi] < c[hi-1] THEN c[hi-1] - c[hi] ELSE 0) + SumFalls(c, lo, hi - 1)
RECURSIVE SumVolumes(_, _, _)
SumVolumes(k, lo, hi) ==
    IF lo > hi THEN 0 ELSE k[hi].volume + SumVolumes(k, lo, hi - 1)

Closes(k) == [i \in 1..Len(k) |-> k[i].close]
WindowRises(k) == SumRises(Closes(k), Len(k) - 13, Len(k))
WindowFalls(k) == SumFalls(Closes(k), Len(k) - 13, Len(k))
WindowVolume(k) == SumVolumes(k, Len(k) - 14, Len(k) - 1)

ReturnAtLeast80(k) ==
    LET n == Len(k) IN 100 * (k[n].close - k[n-1].close) >= 80 * k[n-1].close
RsiUndefined(k) == WindowRises(k) + WindowFalls(k) = 0
RsiAbove85(k) ==
    /\ ~RsiUndefined(k)
    /\ 100 * WindowRises(k) > 85 * (WindowRises(k) + WindowFalls(k))
SpikeAtLeast3(k) ==
    /\ WindowVolume(k) > 0
    /\ 14 * k[Len(k)].volume >= 3 * WindowVolume(k)
RuleHolds(k) ==
    /\ Len(k) >= 15
    /\ ReturnAtLeast80(k) /\ RsiAbove85(k) /\ SpikeAtLeast3(k)

\* a call of analyze_symbol whose candle request was issued and failed
FetchFailed(call) == call.requested /\ call.resp.kind = "fail"
\* ... was answered with candles
FetchedCandles(call) == call.requested /\ call.resp.kind = "ok"
\* an alert for the symbol was handed to send_telegram_message
Dispatched(sym) == \E j \in DOMAIN sent : sent[j].msg.symbol = sym

\* C1: a failing cycle never ends the scheduler loop: every cycle that is
\* started reaches one of the two waits, and after either wait (the one of
\* the except clause included) the next cycle is started.
C1_NextCycleAlwaysStarted ==
    /\ (pc = "fetch") ~> (pc \in {"sleep", "sleepErr"})
    /\ (pc = "sleepErr") ~> (pc = "fetch")
    /\ (pc = "sleep") ~> (pc = "fetch")
\* a cycle failed after it had collected an alert, the wait of the except
\* clause is over and the next cycle is about to start
C1_Witness == pc = "fetch" /\ cycleRaised /\ alerts # <<>> /\ waited > 0

\* every ticker entry of the snapshot and every candle response of the cycle
\* is well formed (numeric fields, rows of six numbers)
WellFormedCycle ==
    /\ \A i \in DOMAIN futures_data : futures_data[i].numeric
    /\ \A i \in DOMAIN calls : calls[i].resp.kind # "badrows"

\* C2: cycle isolation. When the work of a cycle is over, for any two symbols
\* A and B of the snapshot, if the candle request for A failed and the
\* candles of B satisfy the alert rule, an alert for B was dispatched in that
\* cycle.  (Stated for cycles with well-formed responses only: the claim
\* fails even there.)
C2_CycleIsolation ==
    (CycleEnded /\ WellFormedCycle) =>
        \A a, b \in Symbols :
            (/\ a # b
             /\ \E i \in DOMAIN calls : calls[i].symbol = a /\ FetchFailed(calls[i])
             /\ \E i \in DOMAIN calls :
                    /\ calls[i].symbol = b /\ FetchedCandles(calls[i])
                    /\ RuleHolds(calls[i].resp.klines))
            => Dispatched(b)

\* C3: a candle request answered with 0..15 candles raises no error in
\* analyze_symbol, and the cycle goes on to the other symbols.
C3_ShortHistoryRaisesNoError ==
    \A i \in DOMAIN calls :
        (FetchedCandles(calls[i]) /\ Len(calls[i].resp.klines) <= 15)
        => (calls[i].outcome # "raise" /\ ~(cycleRaised /\ i = Len(calls)))

\* analyze_symbol has returned from a call with a candle list
Returned == pc = "returned" /\ arg.symbol_data.numeric /\ arg.resp.kind = "ok"

\* C4 as stated: no candle list shorter than period+2 = 16 gives an alert.
C4_NoAlertBelow16 ==
    (Returned /\ Len(arg.resp.klines) < 16) => ret.outcome # "alert"
\* C4 as amended: no candle list shorter than period+1 = 15 gives an alert.
C4_NoAlertBelow15 ==
    (Returned /\ Len(arg.resp.klines) < 15) => ret.outcome # "alert"
\* 14 candles whose last close is 80% above the one before and whose last
\* volume is three times the one before: analyzed, no alert
C4_Witness ==
    /\ Returned /\ Len(arg.resp.klines) = 14
    /\ ReturnAtLeast80(arg.resp.klines)
    /\ arg.resp.klines[13].volume > 0
    /\ arg.resp.klines[14].volume >= 3 * arg.resp.klines[13].volume
    /\ ret.outcome = "none"

\* C5: when main_loop reaches its wait, every alert collected in the cycle
\* has been passed to send_telegram_message exactly once.  (Stated for
\* cycles with well-formed responses only: the claim fails even there.)
C5_EveryAlertSentOnce ==
    (CycleEnded /\ WellFormedCycle) =>
        \A i \in DOMAIN alerts :
            Cardinality({j \in DOMAIN sent : sent[j].msg = alerts[i]}) = 1

\* C6: on a candle list with sufficient history (period+1 = 15 candles or
\* more, which covers the lists of period+2 or more) analyze_symbol returns
\* an alert iff return >= 80 and RSI > 85 and volume spike >= 3 on the
\* latest candle, and it raises nothing; on any list of two or more candles
\* an undefined indicator gives no alert.
C6_AlertIffRule ==
    Returned =>
        LET k == arg.resp.klines
        IN  /\ Len(k) >= 15 =>
                /\ ret.outcome \in {"alert", "none"}
                /\ (ret.outcome = "alert") <=> RuleHolds(k)
            /\ (Len(k) >= 2 /\ (Len(k) < 15 \/ RsiUndefined(k))) => ret.outcome = "none"
\* an alert with the return exactly 80 and the volume spike exactly 3
C6_Witness ==
    /\ Returned /\ Len(arg.resp.klines) >= 16
    /\ LET k == arg.resp.klines
           n == Len(k)
       IN  /\ 100 * (k[n].close - k[n-1].close) = 80 * k[n-1].close
           /\ 14 * k[n].volume = 3 * WindowVolume(k)
           /\ RsiAbove85(k)
    /\ ret.outcome = "alert"

\* C7: dispatch isolation. The alerts are handed to send_telegram_message
\* one by one in list order; a failed delivery neither stops the loop over
\* the alerts nor sends the cycle into the except clause, so a cycle that
\* dispatches ends with one delivery attempt per collected alert and goes on
\* to the normal wait and the next cycle.
C7_DispatchIsolation ==
    /\ \A j \in DOMAIN sent : j <= Len(alerts) /\ sent[j].msg = alerts[j]
    /\ pc = "dispatch" => (sendIdx = Len(sent) + 1 /\ sendIdx <= Len(alerts))
    /\ sent # <<>> => (pc \in {"dispatch", "sleep"} /\ ~cycleRaised)
    /\ pc = "sleep" => Len(sent) = Len(alerts)
    /\ (pc = "fetch" /\ alerts # <<>> /\ ~cycleRaised) => waited = 60
\* the first of two deliveries failed, the second was made and succeeded
C7_Witness ==
    /\ pc = "sleep" /\ Len(alerts) >= 2 /\ Len(sent) = Len(alerts)
    /\ ~sent[1].delivered /\ sent[2].delivered

\* C8: a cycle whose snapshot request failed issues no analyze_symbol call,
\* collects and sends no alert, does not reach the except clause, and the
\* next cycle is started after one wait of 60 s.
C8_SnapshotFailure ==
    snapshotFailed =>
        /\ calls = <<>> /\ alerts = <<>> /\ sent = <<>>
        /\ ~cycleRaised
        /\ pc \in {"sleep", "fetch"}
        /\ waited = IF pc = "fetch" THEN 60 ELSE 0
\* the snapshot request failed, the wait is over, the next cycle is due
C8_Witness == snapshotFailed /\ pc = "fetch" /\ waited = 60

\* C9: with TELEGRAM_BOT_TOKEN or TELEGRAM_CHAT_ID missing the process never
\* enters the scan loop.
C9_MissingConfigNeverEntersLoop ==
    (~env.token \/ ~env.chat) => (pc \in {"start", "exited"} /\ ~started)

\* C10: the first cycle is started without a wait; every later cycle is
\* started after exactly one wait of 60 s since the cycle before it ended,
\* whether that cycle ended normally or in the except clause; nothing is
\* waited inside a cycle.
C10_OneWaitBetweenCycles ==
    waited = IF pc = "fetch" /\ started THEN 60 ELSE 0
\* a cycle ended in the except clause and exactly 60 s were waited after it
C10_Witness == pc = "fetch" /\ started /\ cycleRaised /\ waited = 60

\* C11: cycles never overlap. The normal wait starts only when every symbol
\* of the snapshot has been analyzed and every collected alert has been
\* handed to send_telegram_message; the wait of the except clause starts only
\* when the cycle was abandoned; while a cycle analyzes or dispatches nothing
\* has been waited and every call on record is for an entry of this cycle's
\* snapshot, in snapshot order.
C11_CyclesNeverOverlap ==
    /\ pc = "sleep" =>
        /\ idx = Len(futures_data) + 1 /\ Len(calls) = Len(futures_data)
        /\ sendIdx = Len(alerts) + 1 /\ Len(sent) = Len(alerts)
    /\ pc = "sleepErr" => cycleRaised
    /\ pc \in {"analyze", "dispatch"} => (waited = 0 /\ ~cycleRaised)
    /\ \A i \in DOMAIN calls :
        i <= Len(futures_data) /\ calls[i].symbol = futures_data[i].symbol
\* the wait is about to start after three analyses and two dispatches
C11_Witness ==
    /\ pc = "sleep" /\ Len(calls) = 3 /\ Len(sent) = 2
    /\ calls[3].outcome = "alert"

\* C12: a symbol that was alerted in the cycle before and whose candles
\* satisfy the rule again in this cycle is alerted in this cycle too.
\* (Stated for cycles with well-formed responses only: the claim fails even
\* there.)
C12_AlertedAgainNextCycle ==
    (CycleEnded /\ WellFormedCycle) =>
        \A i \in DOMAIN calls :
            (/\ calls[i].symbol \in prevSent
             /\ FetchedCandles(calls[i])
             /\ RuleHolds(calls[i].resp.klines))
            => Dispatched(calls[i].symbol)

\* C17: collect, then dispatch. No alert is sent while symbols are still to
\* be analyzed: once a send is on record every entry of the snapshot has been
\* analyzed and none of the analyses raised; a cycle that ends in the except
\* clause has sent nothing.
C17_CollectThenDispatch ==
    /\ sent # <<>> =>
        /\ Len(calls) = Len(futures_data)
        /\ \A i \in DOMAIN calls : calls[i].outcome # "raise"
    /\ pc = "analyze" => sent = <<>>
    /\ cycleRaised => sent = <<>>
\* an alert was collected, a later analysis raised, nothing was sent
C17_Witness ==
    /\ pc = "sleepErr" /\ alerts # <<>> /\ sent = <<>>
    /\ calls # <<>> /\ calls[Len(calls)].outcome = "raise"

\* a / b rounded to the nearest integer, ties to the even one (b > 0)
RoundedRatio(a, b) ==
    LET q == a \div b
        r == a % b
    IN  IF 2 * r > b \/ (2 * r = b /\ q % 2 = 1) THEN q + 1 ELSE q

\* the alert text for a symbol and its candles: the symbol and, in
\* hundredths, the return of the last close over the one before, the RSI of
\* the last 14 close changes and the last volume over the mean of the 14
\* volumes before it
ExpectedMsg(sym, k) ==
    LET n == Len(k)
    IN  [symbol       |-> sym,
         return_1h    |-> RoundedRatio(10000 * (k[n].close - k[n-1].close), k[n-1].close),
         rsi          |-> RoundedRatio(10000 * WindowRises(k), WindowRises(k) + WindowFalls(k)),
         volume_spike |-> RoundedRatio(1400 * k[n].volume, WindowVolume(k))]

\* C18: every alert sent in a cycle is for an entry of that cycle's snapshot
\* whose candles, fetched in that cycle, satisfy the rule; it carries that
\* symbol and the values computed from those candles; no two alerts of a
\* cycle are for the same entry.
C18_AlertsMatchSnapshot ==
    /\ \A j \in DOMAIN sent :
        \E i \in DOMAIN calls :
            /\ i <= Len(futures_data)
            /\ futures_data[i].symbol = sent[j].msg.symbol
            /\ calls[i].symbol = sent[j].msg.symbol
            /\ FetchedCandles(calls[i])
            /\ RuleHolds(calls[i].resp.klines)
            /\ sent[j].msg = ExpectedMsg(calls[i].symbol, calls[i].resp.klines)
    /\ \A j1, j2 \in DOMAIN sent :
        j1 # j2 => sent[j1].msg.symbol # sent[j2].msg.symbol
\* two alerts with different values were sent in one cycle, a third symbol
\* of the snapshot got none
C18_Witness ==
    /\ pc = "sleep" /\ Len(futures_data) = 3 /\ Len(sent) = 2
    /\ sent[1].msg.return_1h # sent[2].msg.return_1h

\* the rises and the falls of the closes that the 14-sample window ending at
\* index i holds (the first sample of a series has no change: it counts 0)
RisesAt(c, i) == SumRises(c, IF i - 13 < 2 THEN 2 ELSE i - 13, i)
FallsAt(c, i) == SumFalls(c, IF i - 13 < 2 THEN 2 ELSE i - 13, i)

\* C13: RSI saturation. When the 14-sample window ending at the latest index
\* holds no fall and at least one rise, calculate_rsi returns (no error) a
\* series whose latest value is the finite number 100.
C13_RsiSaturatesAt100 ==
    pc = "rsi" =>
        LET c == Closes(arg.klines)
            n == Len(c)
        IN  (n >= 14 /\ FallsAt(c, n) = 0 /\ RisesAt(c, n) > 0) =>
                /\ Len(ret) = n
                /\ ret[n].k = "fin"
                /\ ret[n].n = 100 * ret[n].d
\* a window without falls and with a rise, in a series that fell before the
\* window started
C13_Witness ==
    /\ pc = "rsi" /\ Len(arg.klines) = MaxKlines
    /\ arg.klines[1].close > arg.klines[2].close
    /\ FallsAt(Closes(arg.klines), MaxKlines) = 0
    /\ RisesAt(Closes(arg.klines), MaxKlines) > 0
    /\ ret[MaxKlines] = Rat(100, 1)

\* C14: the volume spike, whenever it is computed, is a finite number that
\* is not negative; with at least 15 candles it is 0 when the 14 volumes
\* before the latest sum to 0 and otherwise the latest volume divided by the
\* mean of those 14 volumes.
C14_VolumeSpikeValue ==
    (pc = "spike" /\ ret.outcome = "value") =>
        LET k == arg.klines
            n == Len(k)
            spike == ret.value
        IN  /\ spike.k = "fin" /\ spike.d > 0 /\ spike.n >= 0
            /\ (n >= 15 /\ WindowVolume(k) = 0) => spike.n = 0
            /\ (n >= 15 /\ WindowVolume(k) > 0) =>
                    spike.n * WindowVolume(k) = 14 * k[n].volume * spike.d
\* the mean of the 14 volumes before the latest is 0 and the latest is not
C14_Witness ==
    /\ pc = "spike" /\ ret.outcome = "value" /\ Len(arg.klines) >= 15
    /\ WindowVolume(arg.klines) = 0
    /\ arg.klines[Len(arg.klines)].volume > 0
    /\ ret.value = Rat(0, 1)

\* C15: RSI bounds. At every index where calculate_rsi yields a value that
\* is not NaN, the value is a finite number from 0 to 100.
C15_RsiWithinBounds ==
    pc = "rsi" =>
        \A i \in DOMAIN ret :
            ret[i].k # "nan" =>
                /\ ret[i].k = "fin" /\ ret[i].d > 0
                /\ ret[i].n >= 0
                /\ ret[i].n <= 100 * ret[i].d
\* a series with an RSI strictly between the bounds at one index and an
\* RSI of 0 at another
C15_Witness ==
    /\ pc = "rsi"
    /\ \E i \in DOMAIN ret :
        ret[i].k = "fin" /\ ret[i].n > 0 /\ ret[i].n < 100 * ret[i].d
    /\ \E i \in DOMAIN ret : ret[i].k = "fin" /\ ret[i].n = 0

\* C16: rule monotonicity. Raising one of return, RSI and volume spike while
\* the other two keep their values never turns an alert into no alert.
C16_RuleMonotone == pc = "ruled" => (ret.before => ret.after)
\* return and spike stand exactly at their thresholds; raising the RSI from
\* exactly 85 turns no alert into an alert
C16_Witness ==
    /\ pc = "ruled" /\ arg.which = "rsi"
    /\ arg.return_1h = Rat(2 * MinReturnPct, 2)
    /\ arg.volume_spike = Rat(2 * MinVolumeSpike, 2)
    /\ arg.rsi = Rat(2 * MinRSI, 2)
    /\ ~ret.before /\ ret.after

====
